---------------------------- MODULE Spec2Model ----------------------------
(***************************************************************************)
(* A model of the hand-written HTTP/1.1 server: the wire codec (request    *)
(* parsing over a buffered reader, response serialization), the routing    *)
(* table, the middleware chain and the connection lifecycle manager        *)
(* (accept loop, one task per connection, cooperative graceful shutdown).  *)
(*                                                                         *)
(* A Go string or []byte is a sequence of one-character strings; the zero  *)
(* byte of a freshly made buffer is the element NUL.                       *)
(***************************************************************************)
EXTENDS Integers, Sequences, FiniteSets, TLC

VARIABLES
    routes,           \* Router.routes: method -> (path -> handler)
    notFoundHandler,  \* Router.notFoundHandler
    regs,             \* history of the Handle calls made so far, oldest first
    middleware,       \* Server.middleware, in registration order
    ctxDone,          \* shutdownCtx is cancelled (release() has run)
    loopPc,           \* where ListenAndServe stands: "setup" (not called),
                      \* "listen", "select", "accept", "spawn", "wait" or
                      \* "returned"; "exited" once the process has ended
    retval,           \* what ListenAndServe returned: "none", "nil" or "err"
    wg,               \* Server.wg: the wait group's counter
    conns,            \* the connections Accept has returned, oldest first
    pcAtCancel,       \* loopPc at the moment release() ran ("none" before it)
    callLog,          \* the calls a handler has made on the response writer
    acceptResult,     \* how the Accept call of the current loop iteration ended:
                      \* "none" (not yet), "conn", "timeout" or "error"
    sigPc             \* the goroutine of handleShutdownSignal: "none" (not
                      \* started), "start" (started, signal.Notify not yet
                      \* called), "waiting" (at <-sigCh) or "done"

vars == <<routes, notFoundHandler, regs, middleware, ctxDone, loopPc, retval,
          wg, conns, pcAtCancel, callLog, acceptResult,
          sigPc>>

(***************************************************************************)
(* Bounds of the model.                                                    *)
(***************************************************************************)
MaxConns == 2     \* connections the clients open
MaxCuts == 1      \* places where a request is cut into TCP segments
CutWindow == 8    \* the cuts fall within this many bytes of the request's end
MaxRegs == 3      \* Handle calls at startup
MaxMw == 2        \* Use calls at startup
MaxCalls == 3     \* calls a handler makes on its response writer

(***************************************************************************)
(* Text.                                                                   *)
(***************************************************************************)
NUL == "NUL"
CR == "\r"
LF == "\n"
SP == " "
CRLF == <<CR, LF>>

GET == <<"G","E","T">>
POST == <<"P","O","S","T">>
DELETE == <<"D","E","L","E","T","E">>
PATH_ROOT == <<"/">>
PATH_ABOUT == <<"/","a","b","o","u","t">>
PATH_SUBMIT == <<"/","s","u","b","m","i","t">>
HTTP11 == <<"H","T","T","P","/","1",".","1">>
CONTENT_LENGTH == <<"C","o","n","t","e","n","t","-","L","e","n","g","t","h">>
CONTENT_TYPE == <<"C","o","n","t","e","n","t","-","T","y","p","e">>
TEXT_PLAIN == <<"t","e","x","t","/","p","l","a","i","n",";"," ","c","h","a","r","s","e","t","=","u","t","f","-","8">>
TEXT_HTML == <<"t","e","x","t","/","h","t","m","l",";"," ","c","h","a","r","s","e","t","=","u","t","f","-","8">>
OCTET_STREAM == <<"a","p","p","l","i","c","a","t","i","o","n","/","o","c","t","e","t","-","s","t","r","e","a","m">>
HOME_BODY == <<"W","e","l","c","o","m","e"," ","t","o"," ","t","h","e"," ","h","o","m","e","p","a","g","e","!">>
ABOUT_BODY == <<"T","h","i","s"," ","i","s"," ","t","h","e"," ","a","b","o","u","t"," ","p","a","g","e",".">>
SUBMIT_PREFIX == <<"R","e","c","e","i","v","e","d"," ","y","o","u","r"," ","P","O","S","T"," ","r","e","q","u","e","s","t"," ","w","i","t","h"," ","b","o","d","y",":","\n">>

Min(a, b) == IF a < b THEN a ELSE b

\* unicode.IsSpace on a one-byte character: \t \n \v \f \r and the space
\* (VT stands for the byte 0x0B)
VT == "VT"
IsSpace(c) == c \in {" ", "\t", "\n", VT, "\f", "\r"}

\* the UTF-8 encodings of the other characters unicode.IsSpace is true for:
\* U+0085, U+00A0, U+1680, U+2000..U+200A, U+2028, U+2029, U+202F, U+205F,
\* U+3000 ("xC2" stands for the byte 0xC2)
WideSpaces ==
    {<<"xC2", "x85">>, <<"xC2", "xA0">>, <<"xE1", "x9A", "x80">>,
     <<"xE2", "x81", "x9F">>, <<"xE3", "x80", "x80">>}
    \cup {<<"xE2", "x80", b>> :
              b \in {"x80", "x81", "x82", "x83", "x84", "x85", "x86", "x87", "x88",
                     "x89", "x8A", "xA8", "xA9", "xAF"}}

\* the number of bytes of the space character s begins with, 0 when it
\* begins with none
LeadSpace(s) ==
    IF s # <<>> /\ IsSpace(Head(s)) THEN 1
    ELSE IF \E w \in WideSpaces : Len(s) >= Len(w) /\ SubSeq(s, 1, Len(w)) = w
    THEN Len(CHOOSE w \in WideSpaces : Len(s) >= Len(w) /\ SubSeq(s, 1, Len(w)) = w)
    ELSE 0

\* the number of bytes of the space character s ends with
TailSpace(s) ==
    IF s # <<>> /\ IsSpace(s[Len(s)]) THEN 1
    ELSE IF \E w \in WideSpaces :
                Len(s) >= Len(w) /\ SubSeq(s, Len(s) - Len(w) + 1, Len(s)) = w
    THEN Len(CHOOSE w \in WideSpaces :
                 Len(s) >= Len(w) /\ SubSeq(s, Len(s) - Len(w) + 1, Len(s)) = w)
    ELSE 0

RECURSIVE TrimLeft(_)
TrimLeft(s) ==
    IF LeadSpace(s) > 0 THEN TrimLeft(SubSeq(s, LeadSpace(s) + 1, Len(s))) ELSE s

RECURSIVE TrimRight(_)
TrimRight(s) ==
    IF TailSpace(s) > 0 THEN TrimRight(SubSeq(s, 1, Len(s) - TailSpace(s))) ELSE s

\* strings.TrimSpace
TrimSpace(s) == TrimRight(TrimLeft(s))

\* strings.Index(s, string(c)): the first position of c in s, 0 when absent
IndexByte(s, c) ==
    IF \E i \in 1..Len(s) : s[i] = c
    THEN CHOOSE i \in 1..Len(s) : s[i] = c /\ \A j \in 1..(i - 1) : s[j] # c
    ELSE 0

\* strings.Split(s, string(c)): every c separates, so "a  b" has an empty part
RECURSIVE Split(_, _)
Split(s, c) ==
    LET i == IndexByte(s, c)
    IN  IF i = 0 THEN <<s>>
        ELSE <<SubSeq(s, 1, i - 1)>> \o Split(SubSeq(s, i + 1, Len(s)), c)

\* strings.SplitN(s, string(c), 2)
SplitN2(s, c) ==
    LET i == IndexByte(s, c)
    IN  IF i = 0 THEN <<s>>
        ELSE <<SubSeq(s, 1, i - 1), SubSeq(s, i + 1, Len(s))>>

\* strings.HasPrefix
HasPrefix(s, p) == Len(s) >= Len(p) /\ SubSeq(s, 1, Len(p)) = p

\* strings.TrimPrefix
TrimPrefix(s, p) == IF HasPrefix(s, p) THEN SubSeq(s, Len(p) + 1, Len(s)) ELSE s

Digits == <<"0","1","2","3","4","5","6","7","8","9">>
IsDigit(c) == \E d \in 1..10 : Digits[d] = c
DigitVal(c) == (CHOOSE d \in 1..10 : Digits[d] = c) - 1

RECURSIVE DigitsVal(_)
DigitsVal(s) ==
    IF s = <<>> THEN 0
    ELSE 10 * DigitsVal(SubSeq(s, 1, Len(s) - 1)) + DigitVal(s[Len(s)])

\* a digit string without its leading zeros
RECURSIVE StripZeros(_)
StripZeros(ds) == IF Len(ds) > 1 /\ Head(ds) = "0" THEN StripZeros(Tail(ds)) ELSE ds

\* a > b, for two digit strings without leading zeros
DecGreater(a, b) ==
    \/ Len(a) > Len(b)
    \/ /\ Len(a) = Len(b)
       /\ \E i \in 1..Len(a) :
              /\ DigitVal(a[i]) > DigitVal(b[i])
              /\ \A j \in 1..(i - 1) : a[j] = b[j]

\* a + b + carry, for digit strings a and b
RECURSIVE DecAddCarry(_, _, _)
DecAddCarry(a, b, carry) ==
    IF a = <<>> /\ b = <<>> THEN (IF carry = 0 THEN <<>> ELSE <<Digits[carry + 1]>>)
    ELSE LET da == IF a = <<>> THEN 0 ELSE DigitVal(a[Len(a)])
             db == IF b = <<>> THEN 0 ELSE DigitVal(b[Len(b)])
             sum == da + db + carry
         IN  DecAddCarry(SubSeq(a, 1, Len(a) - 1), SubSeq(b, 1, Len(b) - 1), sum \div 10)
             \o <<Digits[(sum % 10) + 1]>>

DecAdd(a, b) == StripZeros(DecAddCarry(a, b, 0))

\* a - b - borrow, for digit strings a and b with a >= b
RECURSIVE DecSubBorrow(_, _, _)
DecSubBorrow(a, b, borrow) ==
    IF a = <<>> THEN <<>>
    ELSE LET da == DigitVal(a[Len(a)])
             db == IF b = <<>> THEN 0 ELSE DigitVal(b[Len(b)])
             diff == da - db - borrow
         IN  DecSubBorrow(SubSeq(a, 1, Len(a) - 1), SubSeq(b, 1, Len(b) - 1),
                          IF diff < 0 THEN 1 ELSE 0)
             \o <<Digits[(IF diff < 0 THEN diff + 10 ELSE diff) + 1]>>

DecSub(a, b) == StripZeros(DecSubBorrow(a, b, 0))

\* the int of a 64-bit build: 2^63 - 1 is the largest, -2^63 the smallest
MaxInt64 == <<"9","2","2","3","3","7","2","0","3","6","8","5","4","7","7","5","8","0","7">>
MinInt64Magnitude == <<"9","2","2","3","3","7","2","0","3","6","8","5","4","7","7","5","8","0","8">>

AtoiSigned(s) == s # <<>> /\ Head(s) \in {"+", "-"}
AtoiDigits(s) == IF AtoiSigned(s) THEN Tail(s) ELSE s

\* strconv.Atoi returns an error: the text is not an optional sign and then
\* decimal digits only (ErrSyntax), or its value does not fit an int
\* (ErrRange)
AtoiFails(s) ==
    LET ds == AtoiDigits(s)
    IN  \/ ds = <<>>
        \/ \E i \in 1..Len(ds) : ~IsDigit(ds[i])
        \/ DecGreater(StripZeros(ds),
                      IF Head(s) = "-" THEN MinInt64Magnitude ELSE MaxInt64)

\* strconv.Atoi: ok is err == nil; the int is held as its sign and the
\* digits of its magnitude, which may be of any size an int has
Atoi(s) ==
    IF AtoiFails(s) THEN [ok |-> FALSE, neg |-> FALSE, mag |-> <<"0">>]
    ELSE LET mag == StripZeros(AtoiDigits(s))
         IN  [ok |-> TRUE, neg |-> Head(s) = "-" /\ mag # <<"0">>, mag |-> mag]

\* n > 0
Positive(n) == ~n.neg /\ n.mag # <<"0">>

\* fmt.Sprintf("%d", n)
RECURSIVE Itoa(_)
Itoa(n) ==
    IF n < 0 THEN <<"-">> \o Itoa(0 - n)
    ELSE IF n < 10 THEN <<Digits[n + 1]>>
    ELSE Itoa(n \div 10) \o <<Digits[(n % 10) + 1]>>

\* A run of NUL bytes too long to spell out is the item NulRun, the decimal
\* digits of the number of bytes in it, and the item NulEnd.
NulRun == "NUL*"
NulEnd == "*NUL"
Run(count) == <<NulRun>> \o count \o <<NulEnd>>

HasRun(s) == \E i \in 1..Len(s) : s[i] = NulRun
RunStart(s) == CHOOSE i \in 1..Len(s) : s[i] = NulRun /\ \A j \in 1..(i - 1) : s[j] # NulRun
RunEnd(s) == CHOOSE i \in 1..Len(s) : s[i] = NulEnd /\ \A j \in 1..(i - 1) : s[j] # NulEnd

\* fmt.Sprintf("%d", len(s)), for a string with one such run at most
LenText(s) ==
    IF ~HasRun(s) THEN Itoa(Len(s))
    ELSE DecAdd(SubSeq(s, RunStart(s) + 1, RunEnd(s) - 1),
                Itoa(Len(s) - (RunEnd(s) - RunStart(s) + 1)))

\* a Go map[string]string
EmptyMap == [k \in {} |-> <<>>]
MapPut(m, k, v) == [x \in (DOMAIN m) \cup {k} |-> IF x = k THEN v ELSE m[x]]

(***************************************************************************)
(* Wire codec: parsing.  A reader is bufio.Reader over the connection: buf *)
(* holds the bytes read and not yet consumed, segs the segments the client *)
(* sent that the connection has not yet delivered (one per conn.Read), and *)
(* end what a conn.Read meets after the last of them: "eof" (the client    *)
(* closed its side) or "timeout" (the read deadline passed).               *)
(***************************************************************************)
NewReader(stream) == [buf |-> <<>>, segs |-> stream.segs, end |-> stream.end]

\* bufio.Reader.ReadString('\n'): fill until the delimiter is buffered; a
\* read error returns what was read so far with the error.
RECURSIVE ReadString(_)
ReadString(r) ==
    LET i == IndexByte(r.buf, LF)
    IN  IF i > 0
        THEN [line |-> SubSeq(r.buf, 1, i), ok |-> TRUE,
              r |-> [r EXCEPT !.buf = SubSeq(r.buf, i + 1, Len(r.buf))]]
        ELSE IF r.segs = <<>>
        THEN [line |-> r.buf, ok |-> FALSE, r |-> [r EXCEPT !.buf = <<>>]]
        ELSE ReadString([r EXCEPT !.buf = r.buf \o Head(r.segs), !.segs = Tail(r.segs)])

\* bufio.Reader.Read(p) with len(p) = n > 0: what is buffered is copied; with
\* nothing buffered ONE conn.Read is made.  It returns the count copied, which
\* may be less than n, and an error only when no byte was copied.
ReaderRead(r, n) ==
    IF r.buf # <<>>
    THEN LET k == Min(n, Len(r.buf))
         IN  [data |-> SubSeq(r.buf, 1, k), ok |-> TRUE,
              r |-> [r EXCEPT !.buf = SubSeq(r.buf, k + 1, Len(r.buf))]]
    ELSE IF r.segs # <<>>
    THEN LET seg == Head(r.segs)
             k == Min(n, Len(seg))
         IN  [data |-> SubSeq(seg, 1, k), ok |-> TRUE,
              r |-> [r EXCEPT !.buf = SubSeq(seg, k + 1, Len(seg)), !.segs = Tail(r.segs)]]
    ELSE [data |-> <<>>, ok |-> FALSE, r |-> r]

\* make([]byte, n) after the first bytes were overwritten by data
ZeroPadded(data, n) == [i \in 1..n |-> IF i <= Len(data) THEN data[i] ELSE NUL]

\* the header loop of parseRequest
RECURSIVE ReadHeaders(_, _)
ReadHeaders(r, headers) ==
    LET rd == ReadString(r)
        line == TrimSpace(rd.line)
        headerParts == SplitN2(line, ":")
    IN  IF ~rd.ok THEN [ok |-> FALSE, headers |-> headers, r |-> rd.r]
        ELSE IF line = <<>> THEN [ok |-> TRUE, headers |-> headers, r |-> rd.r]
        ELSE IF Len(headerParts) # 2 THEN ReadHeaders(rd.r, headers)
        ELSE ReadHeaders(rd.r,
                 MapPut(headers, TrimSpace(headerParts[1]), TrimSpace(headerParts[2])))

NoRequest(err) ==
    [err |-> err, Method |-> <<>>, Path |-> <<>>, Version |-> <<>>,
     Headers |-> EmptyMap, Body |-> <<>>]

\* make([]byte, length) of the runtime on linux/amd64: a length above
\* maxAlloc = 2^48 panics (makeslice: len out of range), whatever the machine
MaxAlloc == <<"2","8","1","4","7","4","9","7","6","7","1","0","6","5","6">>
\* a length of this many digits or more (a gigabyte) is allocated, or the
\* runtime ends the process (fatal error: out of memory), as the machine has
\* room or not
RoomDigits == 10
\* a count no request of this model reaches
LargeRead == 1000000000

Large(length) == Len(length.mag) >= RoomDigits

\* make([]byte, length) with length > 0 panics
MakePanics(length) == DecGreater(length.mag, MaxAlloc)

\* make([]byte, length) with length > 0 ends the process at once, on a
\* machine that has room for a large body or has not
MakeFatal(length, room) == ~MakePanics(length) /\ Large(length) /\ ~room

\* the Content-Length part of parseRequest when the header is there
ReadLength(req, r, room) ==
    LET length == Atoi(req.Headers[CONTENT_LENGTH])
    IN  IF ~length.ok THEN NoRequest("invalid Content-Length")
        ELSE IF ~Positive(length) THEN req
        ELSE IF MakePanics(length) THEN NoRequest("panic")
        ELSE IF MakeFatal(length, room) THEN NoRequest("fatal")
        ELSE IF Large(length)
        THEN LET rd == ReaderRead(r, LargeRead)
             IN  IF ~rd.ok THEN NoRequest(r.end)
                 ELSE [req EXCEPT
                          !.Body = rd.data \o Run(DecSub(length.mag, Itoa(Len(rd.data))))]
        ELSE LET n == DigitsVal(length.mag)
                 rd == ReaderRead(r, n)
             IN  IF ~rd.ok THEN NoRequest(r.end)
                 ELSE [req EXCEPT !.Body = ZeroPadded(rd.data, n)]

\* parseRequest taking whatever is buffered past the blank line as the body
\* of a request without Content-Length
ReadBodyGreedy(req, r, room) ==
    IF CONTENT_LENGTH \notin DOMAIN req.Headers THEN [req EXCEPT !.Body = r.buf]
    ELSE ReadLength(req, r, room)

\* the Content-Length part of parseRequest
ReadBody(req, r, room) ==
    IF CONTENT_LENGTH \notin DOMAIN req.Headers THEN req
    ELSE ReadLength(req, r, room)

\* parseRequest: err = "" is success, "panic" a run-time panic (it unwinds
\* the goroutine), "fatal" a fatal error of the runtime (the process ends);
\* room says whether the machine has room for a body of a gigabyte or more
parseRequest(stream, room) ==
    LET r0 == NewReader(stream)
        rl == ReadString(r0)
        parts == Split(TrimSpace(rl.line), SP)
    IN  IF ~rl.ok THEN NoRequest(r0.end)
        ELSE IF Len(parts) # 3 THEN NoRequest("malformed request line")
        ELSE LET hs == ReadHeaders(rl.r, EmptyMap)
                 req == [err |-> "", Method |-> parts[1], Path |-> parts[2],
                         Version |-> parts[3], Headers |-> hs.headers, Body |-> <<>>]
             IN  IF ~hs.ok THEN NoRequest(r0.end)
                 ELSE ReadBody(req, hs.r, room)


(***************************************************************************)
(* Wire codec: response serialization.  A response writer holds the        *)
(* connection it writes to; conn is the sequence of what has been written  *)
(* to that connection.  The header lines of one WriteHeader are one item:  *)
(* the header mapping, whose lines go out in the map's iteration order.    *)
(***************************************************************************)
WireStatus(code, text) ==
    [kind |-> "status", code |-> code, text |-> text, hdrs |-> EmptyMap, data |-> <<>>]
WireHeaders(hdrs) ==
    [kind |-> "headers", code |-> 0, text |-> <<>>, hdrs |-> hdrs, data |-> <<>>]
WireBlank ==
    [kind |-> "blank", code |-> 0, text |-> <<>>, hdrs |-> EmptyMap, data |-> CRLF]
WireBody(data) ==
    [kind |-> "body", code |-> 0, text |-> <<>>, hdrs |-> EmptyMap, data |-> data]

StatusText(code) ==
    CASE code = 200 -> <<"O","K">>
      [] code = 400 -> <<"B","a","d"," ","R","e","q","u","e","s","t">>
      [] code = 404 -> <<"N","o","t"," ","F","o","u","n","d">>
      [] code = 405 -> <<"M","e","t","h","o","d"," ","N","o","t"," ","A","l","l","o","w","e","d">>
      [] code = 500 -> <<"I","n","t","e","r","n","a","l"," ","S","e","r","v","e","r"," ","E","r","r","o","r">>
      [] OTHER -> <<>>

newResponse(conn) ==
    [conn |-> conn, headers |-> EmptyMap, statusCode |-> 200, wroteHeader |-> FALSE]

SetHeader(rw, key, value) == [rw EXCEPT !.headers = MapPut(@, key, value)]

\* WriteHeader without its wroteHeader check
WriteHeaderUnguarded(rw, statusCode) ==
    [rw EXCEPT !.statusCode = statusCode,
               !.conn = @ \o <<WireStatus(statusCode, StatusText(statusCode)),
                               WireHeaders(rw.headers), WireBlank>>,
               !.wroteHeader = TRUE]

\* WriteHeader recording the status code before it looks at wroteHeader
WriteHeaderStatusFirst(rw, statusCode) ==
    IF rw.wroteHeader THEN [rw EXCEPT !.statusCode = statusCode]
    ELSE [rw EXCEPT !.statusCode = statusCode,
                    !.conn = @ \o <<WireStatus(statusCode, StatusText(statusCode)),
                                    WireHeaders(rw.headers), WireBlank>>,
                    !.wroteHeader = TRUE]

WriteHeader(rw, statusCode) ==
    IF rw.wroteHeader THEN rw
    ELSE [rw EXCEPT !.statusCode = statusCode,
                    !.conn = @ \o <<WireStatus(statusCode, StatusText(statusCode)),
                                    WireHeaders(rw.headers), WireBlank>>,
                    !.wroteHeader = TRUE]

\* Write finalizing the headers without working out a Content-Length
WriteNoLength(rw, data) ==
    LET flushed == IF rw.wroteHeader THEN rw ELSE WriteHeader(rw, rw.statusCode)
    IN  [flushed EXCEPT !.conn = @ \o <<WireBody(data)>>]

Write(rw, data) ==
    LET flushed ==
            IF rw.wroteHeader THEN rw
            ELSE WriteHeader(
                     IF CONTENT_LENGTH \in DOMAIN rw.headers THEN rw
                     ELSE SetHeader(rw, CONTENT_LENGTH, LenText(data)),
                     rw.statusCode)
    IN  [flushed EXCEPT !.conn = @ \o <<WireBody(data)>>]

Status(rw) == rw.statusCode

httpError(w, code) ==
    Write(WriteHeader(SetHeader(w, CONTENT_TYPE, TEXT_PLAIN), code),
          Itoa(code) \o <<SP>> \o StatusText(code))

(***************************************************************************)
(* Handlers.  A handler is named by its function; the file a static lookup *)
(* reads is the environment's: file.ok says whether os.ReadFile succeeds.  *)
(***************************************************************************)
homeHandler(w, r) == Write(SetHeader(w, CONTENT_TYPE, TEXT_PLAIN), HOME_BODY)

aboutHandler(w, r) == Write(SetHeader(w, CONTENT_TYPE, TEXT_PLAIN), ABOUT_BODY)

submitHandler(w, r) ==
    Write(SetHeader(w, CONTENT_TYPE, TEXT_PLAIN), SUBMIT_PREFIX \o r.Body)

\* the default fallback NewRouter installs
defaultNotFound(w, r) == httpError(w, 404)

DOT == <<".">>
DOTDOT == <<".", ".">>
SLASH == <<"/">>
PUBLIC == <<"p","u","b","l","i","c">>

\* the elements of a path that filepath.Clean keeps, in order
RECURSIVE CleanElems(_, _, _)
CleanElems(elems, out, rooted) ==
    IF elems = <<>> THEN out
    ELSE LET e == Head(elems)
             rest == Tail(elems)
         IN  IF e = <<>> \/ e = DOT THEN CleanElems(rest, out, rooted)
             ELSE IF e = DOTDOT
             THEN IF out # <<>> /\ out[Len(out)] # DOTDOT
                  THEN CleanElems(rest, SubSeq(out, 1, Len(out) - 1), rooted)
                  ELSE IF rooted THEN CleanElems(rest, out, rooted)
                  ELSE CleanElems(rest, Append(out, e), rooted)
             ELSE CleanElems(rest, Append(out, e), rooted)

RECURSIVE JoinElems(_)
JoinElems(elems) ==
    IF elems = <<>> THEN <<>>
    ELSE IF Len(elems) = 1 THEN elems[1]
    ELSE elems[1] \o SLASH \o JoinElems(Tail(elems))

\* filepath.Clean (Unix)
Clean(path) ==
    LET rooted == path # <<>> /\ Head(path) = "/"
        out == CleanElems(Split(path, "/"), <<>>, rooted)
    IN  IF rooted THEN SLASH \o JoinElems(out)
        ELSE IF out = <<>> THEN DOT
        ELSE JoinElems(out)

\* filepath.Ext: from the last dot of the last element
RECURSIVE Ext(_)
Ext(path) ==
    IF path = <<>> \/ path[Len(path)] = "/" THEN <<>>
    ELSE IF path[Len(path)] = "." THEN DOT
    ELSE LET e == Ext(SubSeq(path, 1, Len(path) - 1))
         IN  IF e = <<>> THEN <<>> ELSE e \o <<path[Len(path)]>>

UpperLetters == <<"A","B","C","D","E","F","G","H","I","J","K","L","M","N","O","P","Q","R","S","T","U","V","W","X","Y","Z">>
LowerLetters == <<"a","b","c","d","e","f","g","h","i","j","k","l","m","n","o","p","q","r","s","t","u","v","w","x","y","z">>

\* strings.ToLower, on ASCII
ToLower(s) ==
    [i \in 1..Len(s) |->
        IF \E n \in 1..26 : UpperLetters[n] = s[i]
        THEN LowerLetters[CHOOSE n \in 1..26 : UpperLetters[n] = s[i]]
        ELSE s[i]]

\* mime: builtinTypesLower
BuiltinTypesLower ==
    {<<<<".","a","v","i","f">>,
       <<"i","m","a","g","e","/","a","v","i","f">>>>,
     <<<<".","c","s","s">>,
       <<"t","e","x","t","/","c","s","s",";"," ","c","h","a","r","s","e","t","=","u","t","f","-","8">>>>,
     <<<<".","g","i","f">>,
       <<"i","m","a","g","e","/","g","i","f">>>>,
     <<<<".","h","t","m">>,
       <<"t","e","x","t","/","h","t","m","l",";"," ","c","h","a","r","s","e","t","=","u","t","f","-","8">>>>,
     <<<<".","h","t","m","l">>,
       <<"t","e","x","t","/","h","t","m","l",";"," ","c","h","a","r","s","e","t","=","u","t","f","-","8">>>>,
     <<<<".","j","p","e","g">>,
       <<"i","m","a","g","e","/","j","p","e","g">>>>,
     <<<<".","j","p","g">>,
       <<"i","m","a","g","e","/","j","p","e","g">>>>,
     <<<<".","j","s">>,
       <<"t","e","x","t","/","j","a","v","a","s","c","r","i","p","t",";"," ","c","h","a","r","s","e","t","=","u","t","f","-","8">>>>,
     <<<<".","j","s","o","n">>,
       <<"a","p","p","l","i","c","a","t","i","o","n","/","j","s","o","n">>>>,
     <<<<".","m","j","s">>,
       <<"t","e","x","t","/","j","a","v","a","s","c","r","i","p","t",";"," ","c","h","a","r","s","e","t","=","u","t","f","-","8">>>>,
     <<<<".","p","d","f">>,
       <<"a","p","p","l","i","c","a","t","i","o","n","/","p","d","f">>>>,
     <<<<".","p","n","g">>,
       <<"i","m","a","g","e","/","p","n","g">>>>,
     <<<<".","s","v","g">>,
       <<"i","m","a","g","e","/","s","v","g","+","x","m","l">>>>,
     <<<<".","w","a","s","m">>,
       <<"a","p","p","l","i","c","a","t","i","o","n","/","w","a","s","m">>>>,
     <<<<".","w","e","b","p">>,
       <<"i","m","a","g","e","/","w","e","b","p">>>>,
     <<<<".","x","m","l">>,
       <<"t","e","x","t","/","x","m","l",";"," ","c","h","a","r","s","e","t","=","u","t","f","-","8">>>>}

BuiltinType(ext) ==
    IF \E t \in BuiltinTypesLower : t[1] = ext
    THEN (CHOOSE t \in BuiltinTypesLower : t[1] = ext)[2]
    ELSE <<>>

\* strings.Contains
Contains(s, p) == \E i \in 1..(Len(s) - Len(p) + 1) : SubSeq(s, i, i + Len(p) - 1) = p

\* mime.setExtensionType: a text/ type without a charset gets utf-8 (the
\* types are well-formed media types in lower case)
StoredType(mimeType) ==
    IF HasPrefix(mimeType, <<"t","e","x","t","/">>)
       /\ ~Contains(mimeType, <<"c","h","a","r","s","e","t","=">>)
    THEN mimeType \o <<";"," ","c","h","a","r","s","e","t","=","u","t","f","-","8">>
    ELSE mimeType

\* What the machine adds to the table is one entry at most: system.file is
\* the file it comes from, "globs2" (/usr/share/mime/globs2; with it the
\* mime.types files are not read), "mime.types" or "none"; system.ext the
\* extension as spelled there, with its dot; system.type the type.
\* mime.loadMimeGlobsFile skips an extension the table has and one with a
\* glob character; an extension in either file has a character after its dot.
SystemLoaded(system) ==
    /\ system.file # "none"
    /\ Len(system.ext) >= 2
    /\ system.file = "globs2" =>
           /\ BuiltinType(system.ext) = <<>>
           /\ \A i \in 1..Len(system.ext) : system.ext[i] \notin {"?", "*", "["}

\* mime.TypeByExtension: the case-sensitive table, then the lower-case one
TypeByExtension(ext, system) ==
    LET loaded == SystemLoaded(system)
        exact == IF loaded /\ system.ext = ext THEN StoredType(system.type)
                 ELSE BuiltinType(ext)
        lower == IF loaded /\ ToLower(system.ext) = ToLower(ext) THEN StoredType(system.type)
                 ELSE BuiltinType(ToLower(ext))
    IN  IF exact # <<>> THEN exact ELSE lower

serveStaticFile(w, r, file) ==
    LET cleanPath == Clean(TrimPrefix(r.Path, SLASH))
        filePath == Clean(PUBLIC \o SLASH \o cleanPath)
        mimeType == TypeByExtension(Ext(filePath), file.system)
        contentType == IF mimeType = <<>> THEN OCTET_STREAM ELSE mimeType
    IN  IF r.Method # GET THEN httpError(w, 405)
        ELSE IF HasPrefix(cleanPath, DOTDOT) THEN httpError(w, 400)
        ELSE IF ~file.ok \/ filePath = PUBLIC THEN httpError(w, 404)
        ELSE Write(WriteHeader(SetHeader(w, CONTENT_TYPE, contentType), 200), file.data)

\* calling the handler function named fn
CallHandler(fn, w, r, file) ==
    CASE fn = "homeHandler" -> homeHandler(w, r)
      [] fn = "aboutHandler" -> aboutHandler(w, r)
      [] fn = "submitHandler" -> submitHandler(w, r)
      [] fn = "serveStaticFile" -> serveStaticFile(w, r, file)
      [] fn = "defaultNotFound" -> defaultNotFound(w, r)

(***************************************************************************)
(* Routing table.                                                          *)
(***************************************************************************)
NewRoutes == EmptyMap

\* Handle making a new inner map on every call
RouterHandleFresh(rts, method, path, handler) ==
    MapPut(rts, method, MapPut(EmptyMap, path, handler))

RouterHandle(rts, method, path, handler) ==
    LET methodHandlers == IF method \in DOMAIN rts THEN rts[method] ELSE EmptyMap
    IN  MapPut(rts, method, MapPut(methodHandlers, path, handler))

\* findHandler matching the path under any method
findHandlerPathOnly(rts, nf, method, path) ==
    IF \E m \in DOMAIN rts : path \in DOMAIN rts[m]
    THEN LET m == CHOOSE m \in DOMAIN rts : path \in DOMAIN rts[m] IN rts[m][path]
    ELSE nf

findHandler(rts, nf, method, path) ==
    IF method \in DOMAIN rts /\ path \in DOMAIN rts[method]
    THEN rts[method][path]
    ELSE nf

(***************************************************************************)
(* Middleware chain.  A composed handler is the handler function fn inside *)
(* the closures chain, chain[1] the outermost; every middleware has the    *)
(* shape of loggingMiddleware: note the time, call next, log the status.   *)
(***************************************************************************)
Use(mws, mw) == Append(mws, mw)

BareHandler(fn) == [chain |-> <<>>, fn |-> fn]

\* middleware[i](handler)
ApplyMiddleware(mw, handler) == [handler EXCEPT !.chain = <<mw>> \o @]

\* for i := len(s.middleware) - 1; i >= 0; i-- { handler = s.middleware[i](handler) }
RECURSIVE WrapLoop(_, _, _)
WrapLoop(mws, i, handler) ==
    IF i < 1 THEN handler
    ELSE WrapLoop(mws, i - 1, ApplyMiddleware(mws[i], handler))

\* the middleware loop running from the first middleware to the last
RECURSIVE WrapLoopForward(_, _, _)
WrapLoopForward(mws, i, handler) ==
    IF i > Len(mws) THEN handler
    ELSE WrapLoopForward(mws, i + 1, ApplyMiddleware(mws[i], handler))

WrapAllForward(mws, handler) == WrapLoopForward(mws, 1, handler)

WrapAll(mws, handler) == WrapLoop(mws, Len(mws), handler)

Event(ev, who, status) == [ev |-> ev, who |-> who, status |-> status]

\* handler(resp, req): the writer afterwards and the order of what ran
RECURSIVE Invoke(_, _, _, _)
Invoke(handler, w, r, file) ==
    IF handler.chain = <<>>
    THEN [w |-> CallHandler(handler.fn, w, r, file),
          events |-> <<Event("handler", handler.fn, 0)>>]
    ELSE LET mw == Head(handler.chain)
             inner == Invoke([handler EXCEPT !.chain = Tail(@)], w, r, file)
         IN  [w |-> inner.w,
              events |-> <<Event("before", mw, 0)>> \o inner.events
                         \o <<Event("after", mw, Status(inner.w))>>]

(***************************************************************************)
(* What clients send.  A stream is a request's bytes cut into the segments *)
(* the connection delivers, and what follows the last segment.             *)
(***************************************************************************)
SetMin(S) == CHOOSE x \in S : \A y \in S : x <= y

RECURSIVE Segments(_, _)
Segments(raw, cuts) ==
    IF raw = <<>> THEN <<>>
    ELSE IF cuts = {} THEN <<raw>>
    ELSE LET c == SetMin(cuts)
         IN  <<SubSeq(raw, 1, c)>>
             \o Segments(SubSeq(raw, c + 1, Len(raw)), {x - c : x \in cuts \ {c}})

CutPositions(raw) == {p \in 1..(Len(raw) - 1) : p >= Len(raw) - CutWindow}
CutSets(raw) == {S \in SUBSET CutPositions(raw) : Cardinality(S) <= MaxCuts}
Ends == {"eof", "timeout"}

Streams(raws) ==
    UNION {{[segs |-> Segments(raw, cuts), end |-> e] : cuts \in CutSets(raw), e \in Ends}
           : raw \in raws}

Whole(raw) == [segs |-> Segments(raw, {}), end |-> "eof"]

RECURSIVE HeaderBlock(_)
HeaderBlock(lines) ==
    IF lines = <<>> THEN <<>> ELSE Head(lines) \o CRLF \o HeaderBlock(Tail(lines))

Raw(line, headerLines, body) == line \o CRLF \o HeaderBlock(headerLines) \o CRLF \o body

RequestLine(method, path) == method \o <<SP>> \o path \o <<SP>> \o HTTP11

HeaderLine(name, value) == name \o <<":", SP>> \o value

HELLO == <<"h","e","l","l","o">>
BADREQUEST == <<"B","A","D","R","E","Q","U","E","S","T">>
PATH_PAGE == <<"/","a",".","h","t","m","l">>
PATH_UP == <<"/",".",".","/","x">>
PATH_STYLE == <<"/","s",".","C","S","S">>
FILE_DATA == <<"<","p",">">>
EXT_HTML == <<".","h","t","m","l">>
TEXT_X_SYSTEM == <<"t","e","x","t","/","x","-","s","y","s","t","e","m">>
TEN_TO_15 == <<"1","0","0","0","0","0","0","0","0","0","0","0","0","0","0","0">>

ParseRequestLines ==
    {RequestLine(GET, PATH_ROOT), RequestLine(POST, PATH_SUBMIT), BADREQUEST,
     GET \o <<SP>> \o PATH_ROOT,
     GET \o <<SP, SP>> \o PATH_ROOT,
     GET \o <<SP, SP>> \o PATH_ROOT \o <<SP>> \o HTTP11,
     RequestLine(GET, PATH_ROOT) \o <<SP, "x">>,
     GET \o <<SP>> \o PATH_ROOT \o <<SP, VT>>}

ParseHeaderBlocks ==
    {<<>>,
     <<HeaderLine(CONTENT_LENGTH, <<"5">>)>>,
     <<HeaderLine(CONTENT_LENGTH, <<"-","5">>)>>,
     <<HeaderLine(CONTENT_LENGTH, <<"x">>)>>,
     <<HeaderLine(CONTENT_LENGTH, <<"0">>)>>,
     <<HeaderLine(CONTENT_LENGTH, <<"5","0","0","0","0","0","0","0","0","0">>)>>,
     <<HeaderLine(CONTENT_LENGTH, TEN_TO_15)>>,
     <<HeaderLine(CONTENT_LENGTH, [i \in 1..20 |-> "9"])>>,
     <<HeaderLine(<<"H","o","s","t">>, <<"a">>), <<"n","o","c","o","l","o","n">>>>}

ParseBodies == {<<>>, <<"h","e">>, HELLO, HELLO \o <<"!">>}

ParseRaws ==
    {Raw(l, hs, b) : l \in ParseRequestLines, hs \in ParseHeaderBlocks, b \in ParseBodies}
    \cup {<<>>, RequestLine(GET, PATH_ROOT) \o CRLF}

ParseStreams == Streams(ParseRaws)

DispatchStreams ==
    {Whole(Raw(RequestLine(m, p), <<>>, <<>>)) :
        m \in {GET, POST, DELETE},
        p \in {PATH_ROOT, PATH_ABOUT, PATH_SUBMIT, PATH_PAGE, PATH_STYLE, PATH_UP}}
    \cup {Whole(Raw(RequestLine(POST, PATH_SUBMIT), <<HeaderLine(CONTENT_LENGTH, <<"5">>)>>, HELLO)),
          Whole(Raw(RequestLine(POST, PATH_SUBMIT), <<HeaderLine(CONTENT_LENGTH, TEN_TO_15)>>, <<>>)),
          Whole(Raw(BADREQUEST, <<>>, <<>>))}

ServerStreams ==
    {Whole(Raw(RequestLine(GET, PATH_ROOT), <<>>, <<>>)),
     Whole(Raw(BADREQUEST, <<>>, <<>>)),
     Whole(Raw(RequestLine(POST, PATH_SUBMIT), <<HeaderLine(CONTENT_LENGTH, TEN_TO_15)>>, <<>>))}

NoSystemType == [file |-> "none", ext |-> <<>>, type |-> <<>>]
NoFile == [ok |-> FALSE, data |-> <<>>, system |-> NoSystemType]
Files ==
    {NoFile, [ok |-> TRUE, data |-> FILE_DATA, system |-> NoSystemType]}
    \cup {[ok |-> TRUE, data |-> FILE_DATA,
           system |-> [file |-> f, ext |-> EXT_HTML, type |-> TEXT_X_SYSTEM]] :
               f \in {"globs2", "mime.types"}}

(***************************************************************************)
(* Startup: the routes, the fallback and the middleware are set before     *)
(* ListenAndServe is called.                                               *)
(***************************************************************************)
StandardRegs ==
    <<<<GET, PATH_ROOT, "homeHandler">>, <<GET, PATH_ABOUT, "aboutHandler">>,
      <<POST, PATH_SUBMIT, "submitHandler">>>>

RECURSIVE RoutesAfter(_)
RoutesAfter(rs) ==
    IF rs = <<>> THEN NewRoutes
    ELSE LET last == rs[Len(rs)]
         IN  RouterHandle(RoutesAfter(SubSeq(rs, 1, Len(rs) - 1)), last[1], last[2], last[3])

MiddlewareNames == {"A", "B"}

RECURSIVE MiddlewareLists(_)
MiddlewareLists(n) ==
    IF n = 0 THEN {<<>>}
    ELSE LET shorter == MiddlewareLists(n - 1)
         IN  shorter \cup {Use(mws, mw) : mws \in shorter, mw \in MiddlewareNames}

(***************************************************************************)
(* Connection lifecycle manager.  A connection's pc is where its           *)
(* handleConnection goroutine stands: "accepted" (not started), "parse",   *)
(* "bad" or "dispatch", "handling", "writing" (the call of httpError or of *)
(* the handler is in progress, out of resp.conn the part out has reached   *)
(* the connection), "close", "wgdone" (its deferred calls), "done".  A     *)
(* goroutine that panicked (req.err = "panic") makes its deferred calls    *)
(* too, is "unwound" after them and "panicked" when the runtime has ended  *)
(* the process; "fatal" is a goroutine that met a fatal error of the       *)
(* runtime.  resp is the response writer, out what the connection has      *)
(* carried so far.  Once the process has ended nothing moves.              *)
(***************************************************************************)
NewConn(stream, file, started) ==
    [pc |-> IF started THEN "parse" ELSE "accepted",
     stream |-> stream, file |-> file, req |-> NoRequest("unparsed"),
     handler |-> BareHandler("none"), resp |-> newResponse(<<>>), out |-> <<>>,
     events |-> <<>>, closed |-> FALSE,
     afterCancel |-> ctxDone,     \* Accept returned it after release() ran
     midAtCancel |-> FALSE]       \* its task was running when release() ran

\* net.Listen succeeds; go s.handleShutdownSignal(shutdownRelease)
LoopListen ==
    /\ loopPc = "listen"
    /\ loopPc' = "select"
    /\ sigPc' = "start"
    /\ UNCHANGED <<routes, notFoundHandler, regs, middleware, ctxDone, retval, wg, conns,
                   pcAtCancel, callLog, acceptResult>>

\* net.Listen fails: return err
LoopListenError ==
    /\ loopPc = "listen"
    /\ loopPc' = "returned"
    /\ retval' = "err"
    /\ UNCHANGED <<routes, notFoundHandler, regs, middleware, ctxDone, wg, conns,
                   pcAtCancel, callLog, acceptResult, sigPc>>

\* the loop never looking at the context
LoopSelectBlind ==
    /\ loopPc = "select"
    /\ loopPc' = "accept"
    /\ acceptResult' = "none"
    /\ UNCHANGED <<routes, notFoundHandler, regs, middleware, ctxDone, retval, wg, conns,
                   pcAtCancel, callLog, sigPc>>

\* select { case <-shutdownCtx.Done(): ... default: ... }
LoopSelect ==
    /\ loopPc = "select"
    /\ loopPc' = IF ctxDone THEN "wait" ELSE "accept"
    /\ acceptResult' = "none"
    /\ UNCHANGED <<routes, notFoundHandler, regs, middleware, ctxDone, retval, wg, conns,
                   pcAtCancel, callLog, sigPc>>

\* s.wg.Wait(); return nil
LoopWait ==
    /\ loopPc = "wait"
    /\ wg = 0
    /\ loopPc' = "returned"
    /\ retval' = "nil"
    /\ UNCHANGED <<routes, notFoundHandler, regs, middleware, ctxDone, wg, conns,
                   pcAtCancel, callLog, acceptResult, sigPc>>

\* listener.Accept() returns a connection
LoopAcceptConn ==
    /\ loopPc = "accept"
    /\ Len(conns) < MaxConns
    /\ \E stream \in ServerStreams :
           conns' = Append(conns, NewConn(stream, NoFile, FALSE))
    /\ loopPc' = "spawn"
    /\ acceptResult' = "conn"
    /\ UNCHANGED <<routes, notFoundHandler, regs, middleware, ctxDone, retval, wg,
                   pcAtCancel, callLog, sigPc>>

\* the loop taking every Accept error, a timeout too, as fatal
LoopAcceptTimeoutFatal ==
    /\ loopPc = "accept"
    /\ loopPc' = "returned"
    /\ retval' = "err"
    /\ acceptResult' = "timeout"
    /\ UNCHANGED <<routes, notFoundHandler, regs, middleware, ctxDone, wg, conns,
                   pcAtCancel, callLog, sigPc>>

\* listener.Accept() fails on its one-second deadline: continue
LoopAcceptTimeout ==
    /\ loopPc = "accept"
    /\ loopPc' = "select"
    /\ acceptResult' = "timeout"
    /\ UNCHANGED <<routes, notFoundHandler, regs, middleware, ctxDone, retval, wg, conns,
                   pcAtCancel, callLog, sigPc>>

\* the loop waiting for the tasks before it returns the Accept error
LoopAcceptErrorDrains ==
    /\ loopPc = "accept"
    /\ wg = 0
    /\ loopPc' = "returned"
    /\ retval' = "err"
    /\ acceptResult' = "error"
    /\ UNCHANGED <<routes, notFoundHandler, regs, middleware, ctxDone, wg, conns,
                   pcAtCancel, callLog, sigPc>>

\* listener.Accept() fails otherwise: return err
LoopAcceptError ==
    /\ loopPc = "accept"
    /\ loopPc' = "returned"
    /\ retval' = "err"
    /\ acceptResult' = "error"
    /\ UNCHANGED <<routes, notFoundHandler, regs, middleware, ctxDone, wg, conns,
                   pcAtCancel, callLog, sigPc>>

\* the loop starting the task without s.wg.Add(1)
LoopSpawnNoAdd ==
    /\ loopPc = "spawn"
    /\ conns' = [conns EXCEPT ![Len(conns)].pc = "parse"]
    /\ loopPc' = "select"
    /\ UNCHANGED <<routes, notFoundHandler, regs, middleware, ctxDone, retval, wg,
                   pcAtCancel, callLog, acceptResult, sigPc>>

\* s.wg.Add(1); go s.handleConnection(conn)
LoopSpawn ==
    /\ loopPc = "spawn"
    /\ wg' = wg + 1
    /\ conns' = [conns EXCEPT ![Len(conns)].pc = "parse"]
    /\ loopPc' = "select"
    /\ UNCHANGED <<routes, notFoundHandler, regs, middleware, ctxDone, retval,
                   pcAtCancel, callLog, acceptResult, sigPc>>

\* handleShutdownSignal: signal.Notify(sigCh, os.Interrupt, syscall.SIGTERM)
SignalNotify ==
    /\ loopPc # "exited"
    /\ sigPc = "start"
    /\ sigPc' = "waiting"
    /\ UNCHANGED <<routes, notFoundHandler, regs, middleware, ctxDone, loopPc, retval, wg,
                   conns, pcAtCancel, callLog, acceptResult>>

\* SIGINT or SIGTERM arrives.  With handleShutdownSignal at <-sigCh, it runs
\* release(), which cancels the context, whatever ListenAndServe is doing or
\* has returned; before signal.Notify was called the signal ends the process.
\* (A signal after release() goes to sigCh, which nobody reads any more.)
Signal ==
    /\ loopPc # "exited"
    /\ sigPc # "done"
    /\ IF sigPc = "waiting"
       THEN /\ ctxDone' = TRUE
            /\ sigPc' = "done"
            /\ pcAtCancel' = loopPc
            /\ conns' = [c \in DOMAIN conns |->
                            [conns[c] EXCEPT
                                !.midAtCancel = conns[c].pc \notin {"accepted", "done"}]]
            /\ UNCHANGED loopPc
       ELSE /\ loopPc' = "exited"
            /\ UNCHANGED <<ctxDone, sigPc, pcAtCancel, conns>>
    /\ UNCHANGED <<routes, notFoundHandler, regs, middleware, retval, wg, callLog,
                   acceptResult>>

\* handleConnection: SetReadDeadline, parseRequest.  A panic in parseRequest
\* is recovered nowhere: it unwinds the goroutine, whose deferred calls run
\* (CloseConn, WgDone), and then ends the process (PanicExit).  A fatal error
\* of the runtime ends the process at once.
Parse(c) ==
    /\ loopPc # "exited"
    /\ conns[c].pc = "parse"
    /\ \E room \in BOOLEAN :
           LET req == parseRequest(conns[c].stream, room)
           IN  /\ conns' = [conns EXCEPT
                               ![c].req = req,
                               ![c].pc = CASE req.err = "" -> "dispatch"
                                           [] req.err = "panic" -> "close"
                                           [] req.err = "fatal" -> "fatal"
                                           [] OTHER -> "bad"]
               /\ loopPc' = IF req.err = "fatal" THEN "exited" ELSE loopPc
    /\ UNCHANGED <<routes, notFoundHandler, regs, middleware, ctxDone, retval, wg,
                   pcAtCancel, callLog, acceptResult, sigPc>>

\* handleConnection, err != nil: httpError(newResponse(conn), 400) is called.
\* resp is the writer as the call leaves it; what it writes to the connection
\* goes out write by write (WriteOut).
RespondBad(c) ==
    /\ loopPc # "exited"
    /\ conns[c].pc = "bad"
    /\ conns' = [conns EXCEPT ![c].resp = httpError(newResponse(conns[c].out), 400),
                              ![c].pc = "writing"]
    /\ UNCHANGED <<routes, notFoundHandler, regs, middleware, ctxDone, loopPc, retval, wg,
                   pcAtCancel, callLog, acceptResult, sigPc>>

\* handleConnection: findHandler, the middleware loop, newResponse
Dispatch(c) ==
    /\ loopPc # "exited"
    /\ conns[c].pc = "dispatch"
    /\ LET fn == findHandler(routes, notFoundHandler, conns[c].req.Method, conns[c].req.Path)
       IN  conns' = [conns EXCEPT ![c].handler = WrapAll(middleware, BareHandler(fn)),
                                  ![c].resp = newResponse(conns[c].out),
                                  ![c].pc = "handling"]
    /\ UNCHANGED <<routes, notFoundHandler, regs, middleware, ctxDone, loopPc, retval, wg,
                   pcAtCancel, callLog, acceptResult, sigPc>>

\* what runs in the call handler(resp, req) on connection k, in order
EventsOf(k) ==
    IF k.req.err # "" THEN <<>>
    ELSE Invoke(k.handler, newResponse(<<>>), k.req, k.file).events

\* handleConnection: handler(resp, req) is called: the middleware closures
\* are entered, then the handler function.  resp is the writer as the call
\* leaves it; what it writes to the connection goes out write by write
\* (WriteOut).
RunHandler(c) ==
    /\ loopPc # "exited"
    /\ conns[c].pc = "handling"
    /\ conns' = [conns EXCEPT
                    ![c].resp = Invoke(conns[c].handler, conns[c].resp, conns[c].req,
                                       conns[c].file).w,
                    ![c].events = SubSeq(EventsOf(conns[c]), 1,
                                         Len(conns[c].handler.chain) + 1),
                    ![c].pc = "writing"]
    /\ UNCHANGED <<routes, notFoundHandler, regs, middleware, ctxDone, loopPc, retval, wg,
                   pcAtCancel, callLog, acceptResult, sigPc>>

\* What the connection may have carried after the next write of a call that
\* writes whole in all, out being there now.  A write is one Fprintf of
\* WriteHeader (the status line, one header line, the blank line) or the
\* conn.Write of a body; the lines of a header block go out in the order the
\* map is ranged over, which is any, and a block without lines is no write.
NextWrites(out, whole) ==
    LET n == Len(out)
    IN  IF n > 0 /\ out[n].kind = "headers" /\ DOMAIN out[n].hdrs # DOMAIN whole[n].hdrs
        THEN {[out EXCEPT ![n] = WireHeaders(MapPut(out[n].hdrs, key, whole[n].hdrs[key]))] :
                 key \in DOMAIN whole[n].hdrs \ DOMAIN out[n].hdrs}
        ELSE IF whole[n + 1].kind # "headers" THEN {Append(out, whole[n + 1])}
        ELSE IF DOMAIN whole[n + 1].hdrs = {} THEN {out \o <<whole[n + 1], whole[n + 2]>>}
        ELSE {Append(out, WireHeaders(MapPut(EmptyMap, key, whole[n + 1].hdrs[key]))) :
                 key \in DOMAIN whole[n + 1].hdrs}

\* the next write of the call in progress reaches the connection.  After its
\* last write the call returns, the middleware closures after their handler.
WriteOut(c) ==
    /\ loopPc # "exited"
    /\ conns[c].pc = "writing"
    /\ \E out \in NextWrites(conns[c].out, conns[c].resp.conn) :
           conns' = [conns EXCEPT
                        ![c].out = out,
                        ![c].events = IF out = conns[c].resp.conn THEN EventsOf(conns[c])
                                      ELSE @,
                        ![c].pc = IF out = conns[c].resp.conn THEN "close" ELSE "writing"]
    /\ UNCHANGED <<routes, notFoundHandler, regs, middleware, ctxDone, loopPc, retval, wg,
                   pcAtCancel, callLog, acceptResult, sigPc>>

\* defer conn.Close()
CloseConn(c) ==
    /\ loopPc # "exited"
    /\ conns[c].pc = "close"
    /\ conns' = [conns EXCEPT ![c].closed = TRUE, ![c].pc = "wgdone"]
    /\ UNCHANGED <<routes, notFoundHandler, regs, middleware, ctxDone, loopPc, retval, wg,
                   pcAtCancel, callLog, acceptResult, sigPc>>

\* handleConnection without its defer s.wg.Done()
WgDoneNoDecrement(c) ==
    /\ loopPc # "exited"
    /\ conns[c].pc = "wgdone"
    /\ conns' = [conns EXCEPT ![c].pc = IF conns[c].req.err = "panic" THEN "unwound"
                                        ELSE "done"]
    /\ UNCHANGED <<routes, notFoundHandler, regs, middleware, ctxDone, loopPc, retval, wg,
                   pcAtCancel, callLog, acceptResult, sigPc>>

\* defer s.wg.Done()
WgDone(c) ==
    /\ loopPc # "exited"
    /\ conns[c].pc = "wgdone"
    /\ wg' = wg - 1
    /\ conns' = [conns EXCEPT ![c].pc = IF conns[c].req.err = "panic" THEN "unwound"
                                        ELSE "done"]
    /\ UNCHANGED <<routes, notFoundHandler, regs, middleware, ctxDone, loopPc, retval,
                   pcAtCancel, callLog, acceptResult, sigPc>>

\* the deferred calls of a panicking goroutine are over: the runtime prints
\* the panic and ends the process
PanicExit(c) ==
    /\ loopPc # "exited"
    /\ conns[c].pc = "unwound"
    /\ conns' = [conns EXCEPT ![c].pc = "panicked"]
    /\ loopPc' = "exited"
    /\ UNCHANGED <<routes, notFoundHandler, regs, middleware, ctxDone, retval, wg,
                   pcAtCancel, callLog, acceptResult, sigPc>>

ConnIds == 1..Len(conns)

NextConn ==
    \/ \E c \in ConnIds : Parse(c)
    \/ \E c \in ConnIds : RespondBad(c)
    \/ \E c \in ConnIds : Dispatch(c)
    \/ \E c \in ConnIds : RunHandler(c)
    \/ \E c \in ConnIds : WriteOut(c)
    \/ \E c \in ConnIds : CloseConn(c)
    \/ \E c \in ConnIds : WgDone(c)
    \/ \E c \in ConnIds : PanicExit(c)

Next ==
    \/ LoopListen
    \/ LoopListenError
    \/ LoopSelect
    \/ LoopWait
    \/ LoopAcceptConn
    \/ LoopAcceptTimeout
    \/ LoopAcceptError
    \/ LoopSpawn
    \/ SignalNotify
    \/ Signal
    \/ NextConn

\* one step of the goroutine that runs ListenAndServe
LoopStep ==
    \/ LoopListen
    \/ LoopListenError
    \/ LoopSelect
    \/ LoopWait
    \/ LoopAcceptConn
    \/ LoopAcceptTimeout
    \/ LoopAcceptError
    \/ LoopSpawn

\* the server as main sets it up, ListenAndServe just called
Init ==
    /\ regs = StandardRegs
    /\ routes = RoutesAfter(StandardRegs)
    /\ notFoundHandler = "defaultNotFound"
    /\ middleware = <<"loggingMiddleware">>
    /\ ctxDone = FALSE
    /\ loopPc = "listen"
    /\ retval = "none"
    /\ wg = 0
    /\ conns = <<>>
    /\ pcAtCancel = "none"
    /\ callLog = <<>>
    /\ acceptResult = "none"
    /\ sigPc = "none"

Spec == Init /\ [][Next]_vars

\* parseRequest on the requests the clients of Spec send, worked out once
ServerParsed ==
    {<<stream, room, parseRequest(stream, room)>> : stream \in ServerStreams, room \in BOOLEAN}
Parsed(stream, room) ==
    (CHOOSE p \in ServerParsed : p[1] = stream /\ p[2] = room)[3]

\* the step Parse(c), its request read from ServerParsed
ParseTabled(c) ==
    /\ loopPc # "exited"
    /\ conns[c].pc = "parse"
    /\ \E room \in BOOLEAN :
           LET req == Parsed(conns[c].stream, room)
           IN  /\ conns' = [conns EXCEPT
                               ![c].req = req,
                               ![c].pc = CASE req.err = "" -> "dispatch"
                                           [] req.err = "panic" -> "close"
                                           [] req.err = "fatal" -> "fatal"
                                           [] OTHER -> "bad"]
               /\ loopPc' = IF req.err = "fatal" THEN "exited" ELSE loopPc
    /\ UNCHANGED <<routes, notFoundHandler, regs, middleware, ctxDone, retval, wg,
                   pcAtCancel, callLog, acceptResult, sigPc>>

\* one step of some handleConnection goroutine: NextConn on the connections
\* of Spec
TaskStep ==
    \/ \E c \in ConnIds : ParseTabled(c)
    \/ \E c \in ConnIds : RespondBad(c)
    \/ \E c \in ConnIds : Dispatch(c)
    \/ \E c \in ConnIds : RunHandler(c)
    \/ \E c \in ConnIds : WriteOut(c)
    \/ \E c \in ConnIds : CloseConn(c)
    \/ \E c \in ConnIds : WgDone(c)
    \/ \E c \in ConnIds : PanicExit(c)

\* The server with its goroutines scheduled: the loop goroutine goes on
\* whenever it can (an Accept call ends within its one-second deadline, with
\* a connection, a timeout or an error), and a connection task that can take
\* a step takes one (its reads end within the ten-second read deadline and
\* its handler returns).  Nothing obliges the signal to arrive.
SpecLive == Init /\ [][Next]_vars /\ WF_vars(LoopStep) /\ WF_vars(TaskStep)

\* one connection just handed to its task, whatever the client sends on it
InitParse ==
    /\ regs = StandardRegs
    /\ routes = RoutesAfter(StandardRegs)
    /\ notFoundHandler = "defaultNotFound"
    /\ middleware = <<"loggingMiddleware">>
    /\ ctxDone = FALSE
    /\ loopPc = "select"
    /\ retval = "none"
    /\ wg = 1
    /\ \E stream \in ParseStreams : conns = <<NewConn(stream, NoFile, TRUE)>>
    /\ pcAtCancel = "none"
    /\ callLog = <<>>
    /\ acceptResult = "none"
    /\ sigPc = "waiting"

SpecParse == InitParse /\ [][NextConn]_vars

\* one connection just handed to its task, whatever fallback and middleware
\* main installed
InitDispatch ==
    /\ regs = StandardRegs
    /\ routes = RoutesAfter(StandardRegs)
    /\ notFoundHandler \in {"defaultNotFound", "serveStaticFile"}
    /\ middleware \in MiddlewareLists(MaxMw)
    /\ ctxDone = FALSE
    /\ loopPc = "select"
    /\ retval = "none"
    /\ wg = 1
    /\ \E stream \in DispatchStreams, file \in Files : conns = <<NewConn(stream, file, TRUE)>>
    /\ pcAtCancel = "none"
    /\ callLog = <<>>
    /\ acceptResult = "none"
    /\ sigPc = "waiting"

SpecDispatch == InitDispatch /\ [][NextConn]_vars

(***************************************************************************)
(* Startup calls on a server that is not yet listening.                    *)
(***************************************************************************)
RouteMethods == {GET, POST}
RoutePaths == {PATH_ROOT, PATH_ABOUT}
RouteHandlers == {"homeHandler", "aboutHandler"}
Fallbacks == {"defaultNotFound", "serveStaticFile"}

\* Server.Handle -> Router.Handle
Handle(method, path, handler) ==
    /\ loopPc = "setup"
    /\ Len(regs) < MaxRegs
    /\ routes' = RouterHandle(routes, method, path, handler)
    /\ regs' = Append(regs, <<method, path, handler>>)
    /\ UNCHANGED <<notFoundHandler, middleware, ctxDone, loopPc, retval, wg, conns,
                   pcAtCancel, callLog, acceptResult, sigPc>>

\* Server.SetNotFoundHandler -> Router.SetNotFoundHandler
SetNotFoundHandler(handler) ==
    /\ loopPc = "setup"
    /\ notFoundHandler' = handler
    /\ UNCHANGED <<routes, regs, middleware, ctxDone, loopPc, retval, wg, conns,
                   pcAtCancel, callLog, acceptResult, sigPc>>

\* Server.Use
ServerUse(mw) ==
    /\ loopPc = "setup"
    /\ Len(middleware) < MaxMw
    /\ middleware' = Use(middleware, mw)
    /\ UNCHANGED <<routes, notFoundHandler, regs, ctxDone, loopPc, retval, wg, conns,
                   pcAtCancel, callLog, acceptResult, sigPc>>

NextRouter ==
    \/ \E method \in RouteMethods, path \in RoutePaths, handler \in RouteHandlers :
           Handle(method, path, handler)
    \/ \E handler \in Fallbacks : SetNotFoundHandler(handler)
    \/ \E mw \in MiddlewareNames : ServerUse(mw)

\* NewServer: an empty router with the default fallback, no middleware
InitRouter ==
    /\ regs = <<>>
    /\ routes = NewRoutes
    /\ notFoundHandler = "defaultNotFound"
    /\ middleware = <<>>
    /\ ctxDone = FALSE
    /\ loopPc = "setup"
    /\ retval = "none"
    /\ wg = 0
    /\ conns = <<>>
    /\ pcAtCancel = "none"
    /\ callLog = <<>>
    /\ acceptResult = "none"
    /\ sigPc = "none"

SpecRouter == InitRouter /\ [][NextRouter]_vars

(***************************************************************************)
(* A handler at work: any sequence of calls on the response writer of the  *)
(* connection it serves, inside loggingMiddleware.  While a call is in     *)
(* progress (pc "calling") resp is the writer as the call leaves it and    *)
(* out is what the call has written to the connection so far: statusCode   *)
(* and headers are assigned before the first write of the call,            *)
(* wroteHeader after the blank line, and nothing reads them before the     *)
(* call has returned.                                                      *)
(***************************************************************************)
CallKeys == {CONTENT_TYPE, CONTENT_LENGTH}
CallValues == {TEXT_PLAIN, <<"9">>}
CallCodes == {200, 404, 500}
CallDatas == {<<>>, HELLO}

Call(op, key, value, code, data) ==
    [op |-> op, key |-> key, value |-> value, code |-> code, data |-> data]

\* where the handler stands once it has called a method that leaves the
\* writer as w: in the call while w has writes the connection has not got
PcOfCall(w) == IF w.conn = conns[1].out THEN "handling" ELSE "calling"

\* the handler calls w.SetHeader(key, value), which writes nothing
HandlerSetHeader(key, value) ==
    /\ conns[1].pc = "handling"
    /\ Len(callLog) < MaxCalls
    /\ LET w == SetHeader(conns[1].resp, key, value)
       IN  conns' = [conns EXCEPT ![1].resp = w]
    /\ callLog' = Append(callLog, Call("SetHeader", key, value, 0, <<>>))
    /\ UNCHANGED <<routes, notFoundHandler, regs, middleware, ctxDone, loopPc, retval, wg,
                   pcAtCancel, acceptResult, sigPc>>

\* the handler calls w.WriteHeader(code): the call returns at once when the
\* headers were flushed, else it records the code and begins to write
HandlerWriteHeader(code) ==
    /\ conns[1].pc = "handling"
    /\ Len(callLog) < MaxCalls
    /\ LET w == WriteHeader(conns[1].resp, code)
       IN  conns' = [conns EXCEPT ![1].resp = w, ![1].pc = PcOfCall(w)]
    /\ callLog' = Append(callLog, Call("WriteHeader", <<>>, <<>>, code, <<>>))
    /\ UNCHANGED <<routes, notFoundHandler, regs, middleware, ctxDone, loopPc, retval, wg,
                   pcAtCancel, acceptResult, sigPc>>

\* the handler calls w.Write(data): the call works out the Content-Length
\* if the headers are not flushed and none is set, and begins to write
HandlerWrite(data) ==
    /\ conns[1].pc = "handling"
    /\ Len(callLog) < MaxCalls
    /\ LET w == Write(conns[1].resp, data)
       IN  conns' = [conns EXCEPT ![1].resp = w, ![1].pc = PcOfCall(w)]
    /\ callLog' = Append(callLog, Call("Write", <<>>, <<>>, 0, data))
    /\ UNCHANGED <<routes, notFoundHandler, regs, middleware, ctxDone, loopPc, retval, wg,
                   pcAtCancel, acceptResult, sigPc>>

\* the next write of the call in progress reaches the connection: the
\* status line, one header line, the blank line or the body; after its last
\* write the call returns to the handler
HandlerWriteOut ==
    /\ conns[1].pc = "calling"
    /\ \E out \in NextWrites(conns[1].out, conns[1].resp.conn) :
           conns' = [conns EXCEPT
                        ![1].out = out,
                        ![1].pc = IF out = conns[1].resp.conn THEN "handling"
                                  ELSE "calling"]
    /\ UNCHANGED <<routes, notFoundHandler, regs, middleware, ctxDone, loopPc, retval, wg,
                   pcAtCancel, callLog, acceptResult, sigPc>>

\* what the closures of chain do after next(w, r) has returned, the
\* innermost first: each reads w.Status()
RECURSIVE AfterEvents(_, _)
AfterEvents(chain, w) ==
    IF chain = <<>> THEN <<>>
    ELSE AfterEvents(Tail(chain), w) \o <<Event("after", Head(chain), Status(w))>>

\* the handler returns to the closures it was called in
HandlerReturn ==
    /\ conns[1].pc = "handling"
    /\ conns' = [conns EXCEPT
                    ![1].events = @ \o AfterEvents(conns[1].handler.chain, conns[1].resp),
                    ![1].pc = "close"]
    /\ UNCHANGED <<routes, notFoundHandler, regs, middleware, ctxDone, loopPc, retval, wg,
                   pcAtCancel, callLog, acceptResult, sigPc>>

NextResp ==
    \/ \E key \in CallKeys, value \in CallValues : HandlerSetHeader(key, value)
    \/ \E code \in CallCodes : HandlerWriteHeader(code)
    \/ \E data \in CallDatas : HandlerWrite(data)
    \/ HandlerWriteOut
    \/ HandlerReturn

\* one connection whose request was parsed: handler(resp, req) was called
\* with a fresh response writer, loggingMiddleware's closure has called
\* next(w, r), and the handler function is about to make its calls
InitResp ==
    /\ regs = StandardRegs
    /\ routes = RoutesAfter(StandardRegs)
    /\ notFoundHandler = "defaultNotFound"
    /\ middleware = <<"loggingMiddleware">>
    /\ ctxDone = FALSE
    /\ loopPc = "select"
    /\ retval = "none"
    /\ wg = 1
    /\ \E stream \in {Whole(Raw(RequestLine(GET, PATH_ROOT), <<>>, <<>>))} :
           conns = <<[NewConn(stream, NoFile, TRUE) EXCEPT
                          !.req = parseRequest(stream, TRUE),
                          !.handler = WrapAll(middleware, BareHandler("HandlerFunc")),
                          !.events = <<Event("before", "loggingMiddleware", 0),
                                       Event("handler", "HandlerFunc", 0)>>,
                          !.pc = "handling"]>>
    /\ pcAtCancel = "none"
    /\ callLog = <<>>
    /\ acceptResult = "none"
    /\ sigPc = "waiting"

SpecResp == InitResp /\ [][NextResp]_vars

(***************************************************************************)
(* Properties.                                                             *)
(***************************************************************************)
Count(out, kind) == Cardinality({i \in 1..Len(out) : out[i].kind = kind})

\* the status code of the response on a connection, 0 when there is none
ResponseStatus(out) == IF out # <<>> /\ out[1].kind = "status" THEN out[1].code ELSE 0

Finished(k) == k.pc \in {"close", "wgdone", "done"}
\* parseRequest on connection k returned an error
ParseFailed(k) == k.req.err \notin {"", "unparsed", "panic", "fatal"}
\* parseRequest on connection k ended without a request
Faulted(k) == k.req.err \notin {"", "unparsed"}

RECURSIVE Flatten(_)
Flatten(segs) == IF segs = <<>> THEN <<>> ELSE Head(segs) \o Flatten(Tail(segs))

SetMax(S) == CHOOSE x \in S : \A y \in S : x >= y

\* C1: when ListenAndServe has returned nil (the shutdown path), every
\* connection Accept returned has finished its handleConnection task: its
\* response is written, it is closed and its task has ended.
C1_GracefulDrain ==
    retval = "nil" =>
        \A c \in ConnIds :
            /\ conns[c].pc = "done"
            /\ conns[c].closed
            /\ ResponseStatus(conns[c].out) # 0
            /\ Count(conns[c].out, "body") >= 1

\* the same of the connections whose task did not panic; one whose task
\* panicked is closed and its task is over
DrainsButPanics ==
    retval = "nil" =>
        \A c \in ConnIds :
            /\ conns[c].closed
            /\ IF conns[c].req.err = "panic" THEN conns[c].pc \in {"unwound", "panicked"}
               ELSE /\ conns[c].pc = "done"
                    /\ ResponseStatus(conns[c].out) # 0
                    /\ Count(conns[c].out, "body") >= 1

\* C2 as stated: in no step taken after release() ran does Accept return a
\* connection or a handleConnection task start.
C2_NoAcceptAfterCancel ==
    [][ctxDone =>
          /\ Len(conns') = Len(conns)
          /\ \A c \in ConnIds : conns[c].pc = "accepted" => conns'[c].pc = "accepted"]_vars

\* C2 amended: after release() ran the loop begins no new Accept call (an
\* iteration that starts then takes the shutdown branch, if the process has
\* not ended before it moves); a connection is
\* returned after that only by the Accept call whose iteration had passed
\* its cancellation check when release() ran, and a task is started after
\* that only for a connection of that iteration.
C2_NoNewAcceptCall ==
    [][ctxDone =>
          /\ loopPc # "accept" => loopPc' # "accept"
          /\ loopPc = "select" => loopPc' \in {"select", "wait", "exited"}
          /\ Len(conns') > Len(conns) => pcAtCancel = "accept"
          /\ (\E c \in ConnIds : conns[c].pc = "accepted" /\ conns'[c].pc # "accepted")
                 => pcAtCancel \in {"accept", "spawn"}]_vars

\* release() ran during an Accept call, which then returned a connection,
\* and the next iteration took the shutdown branch
C2_Witness ==
    /\ ctxDone
    /\ loopPc = "wait"
    /\ conns # <<>>
    /\ conns[Len(conns)].afterCancel

\* C3: whatever calls a handler makes, and however far their writes have
\* gone, the connection carries at most one status line and one header
\* block, and they precede every body write, the header block whole.
C3_HeadersOnce ==
    \A c \in ConnIds :
        LET out == conns[c].out
        IN  /\ Count(out, "status") <= 1
            /\ Count(out, "headers") <= 1
            /\ Count(out, "blank") <= 1
            /\ \A i \in 1..Len(out) :
                   /\ out[i].kind = "status" => i = 1
                   /\ out[i].kind = "headers" => i = 2
                   /\ out[i].kind = "blank" =>
                          /\ i = 3
                          /\ out[2].hdrs = conns[c].resp.conn[2].hdrs
                   /\ out[i].kind = "body" =>
                          /\ i > 3
                          /\ out[1].kind = "status"
                          /\ out[2].kind = "headers"
                          /\ out[3].kind = "blank"

\* WriteHeader, WriteHeader with another code, then Write, whose body has
\* reached the connection: one status line
C3_Witness ==
    /\ Len(callLog) = 3
    /\ callLog[1].op = "WriteHeader"
    /\ callLog[2].op = "WriteHeader"
    /\ callLog[2].code # callLog[1].code
    /\ callLog[3].op = "Write"
    /\ Count(conns[1].out, "status") = 1
    /\ Count(conns[1].out, "body") = 1

GoodLines == {RequestLine(GET, PATH_ROOT), RequestLine(POST, PATH_SUBMIT)}
Length5 == <<HeaderLine(CONTENT_LENGTH, <<"5">>)>>

\* a well-formed request with Content-Length: 5 and its five body bytes
SentWhole(stream) == \E l \in GoodLines : Flatten(stream.segs) = Raw(l, Length5, HELLO)

\* C4 as stated: a well-formed request with Content-Length 5 whose five body
\* bytes are all sent, in whatever segments, parses, and its body is those
\* five bytes.
C4_BodyRoundTrip ==
    \A c \in ConnIds :
        (conns[c].pc # "parse" /\ SentWhole(conns[c].stream)) =>
            /\ conns[c].req.err = ""
            /\ conns[c].req.Body = HELLO

\* the names of the handler functions that ran
HandlerCalls(events) ==
    LET idx == {i \in 1..Len(events) : events[i].ev = "handler"}
    IN  {events[i].who : i \in idx}
HandlerCallCount(events) == Cardinality({i \in 1..Len(events) : events[i].ev = "handler"})

\* out is what the first writes of a call that writes whole put on the
\* connection: its items in order, of the last header block some lines
WrittenPart(out, whole) ==
    /\ Len(out) <= Len(whole)
    /\ \A i \in 1..Len(out) :
           \/ out[i] = whole[i]
           \/ /\ i = Len(out)
              /\ out[i].kind = "headers" /\ whole[i].kind = "headers"
              /\ DOMAIN out[i].hdrs \subseteq DOMAIN whole[i].hdrs
              /\ \A key \in DOMAIN out[i].hdrs : out[i].hdrs[key] = whole[i].hdrs[key]

\* the exchange on connection k, as far as it has gone: a failed parse gets
\* a 400 and no handler call; a successful one gets exactly one call of the
\* handler findHandler resolves, inside the whole middleware chain, on one
\* writer bound to the connection; what is on the connection is the
\* beginning of that one response; the connection is closed afterwards.
OneExchange(k) ==
    /\ ParseFailed(k) => k.events = <<>>
    /\ (ParseFailed(k) /\ Finished(k)) =>
           ResponseStatus(k.out) = 400 /\ Count(k.out, "body") = 1
    /\ (k.req.err = "" /\ Finished(k)) =>
           /\ HandlerCallCount(k.events) = 1
           /\ HandlerCalls(k.events) =
                  {findHandler(routes, notFoundHandler, k.req.Method, k.req.Path)}
           /\ k.handler.chain = middleware
           /\ Len(k.events) = 2 * Len(middleware) + 1
           /\ k.resp.conn = k.out
    /\ k.pc = "done" => k.closed
    /\ k.closed => Finished(k)
    /\ k.pc = "writing" => k.out # k.resp.conn /\ WrittenPart(k.out, k.resp.conn)
    /\ (~Finished(k) /\ k.pc # "writing") => k.out = <<>>
    /\ Count(k.out, "status") <= 1

\* C5: on every connection parseRequest ends in one of two ways, it fails or
\* it succeeds, and the exchange that follows is the one exchange of the
\* connection: the 400, or the one call of the routed handler.
C5_OneExchange ==
    \A c \in ConnIds :
        LET k == conns[c]
        IN  /\ k.pc \notin {"accepted", "parse"} => (ParseFailed(k) \/ k.req.err = "")
            /\ OneExchange(k)

\* whatever else happens, the exchanges that take place are of that form
ExchangesAreSingle ==
    \A c \in ConnIds : conns[c].req.err \notin {"panic", "fatal"} => OneExchange(conns[c])

ProbeMethods == RouteMethods \cup {DELETE, <<"g","e","t">>}
ProbePaths == RoutePaths \cup {PATH_SUBMIT, PATH_ABOUT \o SLASH}

\* the handler of the latest Handle call for the pair, the fallback if none
LatestRegistration(method, path) ==
    LET idx == {i \in 1..Len(regs) : regs[i][1] = method /\ regs[i][2] = path}
    IN  IF idx = {} THEN notFoundHandler ELSE regs[SetMax(idx)][3]

\* C6: after any Handle calls, findHandler gives the handler of the latest
\* registration of exactly that (method, path), the fallback for a pair never
\* registered; the default fallback answers 404.
C6_Routing ==
    /\ \A method \in ProbeMethods, path \in ProbePaths :
           findHandler(routes, notFoundHandler, method, path) = LatestRegistration(method, path)
    /\ notFoundHandler = "defaultNotFound" =>
           ResponseStatus(CallHandler(findHandler(routes, notFoundHandler, DELETE, PATH_SUBMIT),
                                      newResponse(<<>>), NoRequest(""), NoFile).conn) = 404

\* a pair registered twice with different handlers resolves to the later
\* one, another path of the same method keeps its handler, and an
\* unregistered pair resolves to the installed fallback
C6_Witness ==
    /\ Len(regs) = 3
    /\ regs[1][1] = regs[3][1] /\ regs[1][2] = regs[3][2] /\ regs[1][3] # regs[3][3]
    /\ regs[2][1] = regs[1][1] /\ regs[2][2] # regs[1][2]
    /\ findHandler(routes, notFoundHandler, regs[1][1], regs[1][2]) = regs[3][3]
    /\ findHandler(routes, notFoundHandler, regs[2][1], regs[2][2]) = regs[2][3]
    /\ notFoundHandler = "serveStaticFile"
    /\ findHandler(routes, notFoundHandler, DELETE, PATH_ROOT) = "serveStaticFile"

EventNames(events) == [i \in 1..Len(events) |-> <<events[i].ev, events[i].who>>]

\* m0-before, ..., mk-before, H, mk-after, ..., m0-after
NestedOrder(mws, fn) ==
    [i \in 1..(2 * Len(mws) + 1) |->
        IF i <= Len(mws) THEN <<"before", mws[i]>>
        ELSE IF i = Len(mws) + 1 THEN <<"handler", fn>>
        ELSE <<"after", mws[2 * Len(mws) + 2 - i]>>]

\* C7: one dispatch runs the middlewares nested in registration order, the
\* first registered outermost.
C7_MiddlewareNesting ==
    \A c \in ConnIds :
        (conns[c].req.err = "" /\ Finished(conns[c])) =>
            EventNames(conns[c].events) = NestedOrder(middleware, conns[c].handler.fn)

\* A then B around the home handler: A-before, B-before, H, B-after, A-after
C7_Witness ==
    /\ middleware = <<"A", "B">>
    /\ conns[1].pc = "done"
    /\ EventNames(conns[1].events) =
           <<<<"before", "A">>, <<"before", "B">>, <<"handler", "homeHandler">>,
             <<"after", "B">>, <<"after", "A">>>>

\* a request served for a path that has a route, under a method that has none
WrongMethod(k) ==
    /\ k.pc = "done"
    /\ k.req.err = ""
    /\ \E m \in DOMAIN routes : k.req.Path \in DOMAIN routes[m]
    /\ ~(k.req.Method \in DOMAIN routes /\ k.req.Path \in DOMAIN routes[k.req.Method])

\* C8 as stated: such a request is answered 405.
C8_MethodNotAllowed ==
    \A c \in ConnIds : WrongMethod(conns[c]) => ResponseStatus(conns[c].out) = 405

\* C8 amended: such a request is answered by the fallback handler: 404 under
\* the default fallback, and 405 under the serveStaticFile fallback when the
\* method is not GET.
C8_FallbackAnswers ==
    \A c \in ConnIds :
        WrongMethod(conns[c]) =>
            /\ conns[c].handler.fn = notFoundHandler
            /\ HandlerCalls(conns[c].events) = {notFoundHandler}
            /\ notFoundHandler = "defaultNotFound" => ResponseStatus(conns[c].out) = 404
            /\ (notFoundHandler = "serveStaticFile" /\ conns[c].req.Method # GET) =>
                   ResponseStatus(conns[c].out) = 405

\* DELETE / under the default fallback is answered 404
C8_Witness ==
    /\ WrongMethod(conns[1])
    /\ notFoundHandler = "defaultNotFound"
    /\ conns[1].req.Method = DELETE
    /\ conns[1].req.Path = PATH_ROOT
    /\ ResponseStatus(conns[1].out) = 404

\* an otherwise well-formed request whose Content-Length is -5 or x
BadLengthBlocks ==
    {<<HeaderLine(CONTENT_LENGTH, <<"-","5">>)>>, <<HeaderLine(CONTENT_LENGTH, <<"x">>)>>}
HasBadLength(stream) ==
    \E l \in GoodLines, hs \in BadLengthBlocks, b \in ParseBodies :
        Flatten(stream.segs) = Raw(l, hs, b)

\* C9 as stated: a request whose Content-Length is not a non-negative
\* integer fails parsing, is answered 400, and no handler is called.
C9_BadLengthRejected ==
    \A c \in ConnIds :
        HasBadLength(conns[c].stream) =>
            /\ conns[c].pc # "parse" => conns[c].req.err # ""
            /\ conns[c].events = <<>>
            /\ Finished(conns[c]) => ResponseStatus(conns[c].out) = 400

\* a well-formed request with Content-Length: 5 and fewer than five body bytes
SentShort(stream) ==
    \E l \in GoodLines, b \in ParseBodies :
        Len(b) < 5 /\ Flatten(stream.segs) = Raw(l, Length5, b)

\* C10 as stated: a request that declares five body bytes and whose stream
\* ends before they all came fails parsing, and no handler gets it.
C10_ShortBodyRejected ==
    \A c \in ConnIds :
        SentShort(conns[c].stream) =>
            /\ conns[c].pc # "parse" => conns[c].req.err # ""
            /\ conns[c].events = <<>>

\* C11 as stated: once release() has run, ListenAndServe eventually returns
\* nil.
C11_ShutdownReturnsNil == ctxDone ~> (loopPc = "returned" /\ retval = "nil")

\* C11 amended: once release() has run then, whatever the clients do,
\* ListenAndServe has eventually returned, or a connection handler is one
\* that never returns (it panicked or met a fatal error, and the process
\* ends with it).  What
\* ListenAndServe returns is nil, unless an Accept call failed with an error
\* that is not a timeout, the call that was in progress when release() ran or
\* one before it (ListenAndServe had returned then): it returns that error.
C11_ShutdownReturns ==
    ctxDone ~> \/ /\ loopPc = "returned"
                  /\ \/ retval = "nil"
                     \/ /\ retval = "err"
                        /\ acceptResult = "error"
                        /\ pcAtCancel \in {"accept", "returned"}
               \/ \E c \in ConnIds : conns[c].req.err \in {"panic", "fatal"}

\* release() ran while every connection the clients open was being served,
\* and ListenAndServe has returned nil
C11_Witness ==
    /\ ctxDone
    /\ retval = "nil"
    /\ Len(conns) = MaxConns
    /\ \A c \in ConnIds : conns[c].midAtCancel

\* the fairness of SpecLive is fairness of the connection tasks of Spec: on
\* the connections of Spec a ParseTabled step is a Parse step
TaskStepIsNextConn == [][\A c \in ConnIds : Parse(c) <=> ParseTabled(c)]_vars

\* C12: a step of a connection task whose request could not be read or
\* parsed changes that connection only: every other connection, the accept
\* loop (its position, its Accept result, what it returned), the
\* cancellation flag, the routes and the middleware are as before, and the
\* wait group loses that task's unit alone, when the task ends.  Whatever
\* fails elsewhere, a connection whose own request parsed is answered by its
\* handler.
C12_FaultContained ==
    [][/\ \A c \in ConnIds :
              (Faulted(conns'[c]) /\ conns'[c].pc # conns[c].pc) =>
                  /\ Len(conns') = Len(conns)
                  /\ \A d \in ConnIds \ {c} : conns'[d] = conns[d]
                  /\ loopPc' = loopPc /\ retval' = retval /\ acceptResult' = acceptResult
                  /\ ctxDone' = ctxDone
                  /\ routes' = routes /\ notFoundHandler' = notFoundHandler
                  /\ middleware' = middleware
                  /\ wg' = IF conns'[c].pc \in {"done", "unwound"} THEN wg - 1 ELSE wg
       /\ \A d \in DOMAIN conns' :
              (Finished(conns'[d]) /\ conns'[d].req.err = "") =>
                  /\ ResponseStatus(conns'[d].out) = 200
                  /\ HandlerCallCount(conns'[d].events) = 1]_vars

\* the same of the tasks whose parseRequest returned an error
ErrorsContained ==
    [][\A c \in ConnIds :
           (ParseFailed(conns'[c]) /\ conns'[c].pc # conns[c].pc) =>
               /\ Len(conns') = Len(conns)
               /\ \A d \in ConnIds \ {c} : conns'[d] = conns[d]
               /\ loopPc' = loopPc /\ retval' = retval /\ acceptResult' = acceptResult
               /\ ctxDone' = ctxDone
               /\ wg' = IF conns'[c].pc = "done" THEN wg - 1 ELSE wg]_vars

\* C13: when an Accept call ends on its deadline the loop does not return:
\* it is at the cancellation check of its next iteration, nothing else
\* changed; when an Accept call ends with another error the loop is over and
\* ListenAndServe has returned the error.  ListenAndServe returns an error
\* in no other way once it listens: the one other error is that of
\* net.Listen, before the loop.
C13_AcceptErrors ==
    [][/\ (loopPc = "accept" /\ acceptResult' = "timeout") =>
              /\ loopPc' = "select"
              /\ retval' = "none"
              /\ conns' = conns /\ wg' = wg
       /\ (loopPc = "accept" /\ acceptResult' = "error") =>
              /\ loopPc' = "returned"
              /\ retval' = "err"
       /\ (retval' = "err" /\ retval # "err") =>
              \/ loopPc = "accept" /\ acceptResult' = "error"
              \/ loopPc = "listen"
       /\ (loopPc = "select" /\ acceptResult = "timeout"
              /\ loopPc' \notin {"select", "exited"}) =>
              loopPc' = IF ctxDone THEN "wait" ELSE "accept"]_vars

\* release() ran during an Accept call, which then ended on its deadline:
\* the loop has not returned and is at its cancellation check
C13_Witness ==
    /\ pcAtCancel = "accept"
    /\ acceptResult = "timeout"
    /\ loopPc = "select"
    /\ retval = "none"

\* the calls of the log before call i that set header key, oldest first
SetsBefore(i, key) ==
    {j \in 1..(i - 1) : callLog[j].op = "SetHeader" /\ callLog[j].key = key}

\* the first Write of the log found the headers not yet flushed
FirstWriteFinalizes(i) ==
    /\ i \in 1..Len(callLog)
    /\ callLog[i].op = "Write"
    /\ \A j \in 1..(i - 1) : callLog[j].op = "SetHeader"

\* what a first Write, call i of the log, made before any WriteHeader puts
\* on the connection: 200 OK, the headers set so far with the
\* Content-Length the handler set last, or else the decimal length of the
\* data, the blank line, the data
Finalized(i) ==
    LET lengths == SetsBefore(i, CONTENT_LENGTH)
        types == SetsBefore(i, CONTENT_TYPE)
        length == IF lengths = {} THEN Itoa(Len(callLog[i].data))
                  ELSE callLog[SetMax(lengths)].value
        hdrs == IF types = {} THEN MapPut(EmptyMap, CONTENT_LENGTH, length)
                ELSE MapPut(MapPut(EmptyMap, CONTENT_TYPE, callLog[SetMax(types)].value),
                            CONTENT_LENGTH, length)
    IN  <<WireStatus(200, StatusText(200)), WireHeaders(hdrs), WireBlank,
          WireBody(callLog[i].data)>>

\* C14: when the first Write(data) comes before any WriteHeader, the
\* connection carries the status line 200 OK, a header block holding the
\* headers set so far and a Content-Length that is the one the handler set
\* last, or else the decimal length of data, then the blank line, then data:
\* while the call is in progress what it has written of them so far, once it
\* has returned all of them.  So homeHandler answers with Content-Length: 24.
C14_AutoFinalize ==
    /\ \A i \in 1..Len(callLog) :
           FirstWriteFinalizes(i) =>
               LET out == conns[1].out
               IN  IF i = Len(callLog) /\ conns[1].pc = "calling"
                   THEN out # Finalized(i) /\ WrittenPart(out, Finalized(i))
                   ELSE Len(out) >= 4 /\ SubSeq(out, 1, 4) = Finalized(i)
    /\ homeHandler(newResponse(<<>>), NoRequest("")).conn =
           <<WireStatus(200, StatusText(200)),
             WireHeaders(MapPut(MapPut(EmptyMap, CONTENT_TYPE, TEXT_PLAIN),
                                CONTENT_LENGTH, <<"2", "4">>)),
             WireBlank, WireBody(HOME_BODY)>>

\* SetHeader("Content-Type", ...) then Write("hello"), which has returned:
\* the header block on the connection says Content-Length: 5
C14_Witness ==
    /\ Len(callLog) = 2
    /\ callLog[1].op = "SetHeader" /\ callLog[1].key = CONTENT_TYPE
    /\ callLog[2].op = "Write" /\ callLog[2].data = HELLO
    /\ conns[1].pc = "handling"
    /\ Len(conns[1].out) = 4
    /\ conns[1].out[2].hdrs[CONTENT_LENGTH] = <<"5">>

\* the line is three tokens, each separated from the next by one space
ThreeTokens(line) ==
    LET parts == Split(line, SP)
    IN  Len(parts) = 3 /\ \A i \in 1..3 : parts[i] # <<>>
HasBadLine(stream) ==
    \E l \in ParseRequestLines, hs \in ParseHeaderBlocks, b \in ParseBodies :
        ~ThreeTokens(l) /\ Flatten(stream.segs) = Raw(l, hs, b)

\* C15 as stated: a request whose request line is not three tokens with one
\* space between them (one token, two tokens, four tokens, a double space
\* between tokens) fails parsing and is answered 400.
C15_BadLineRejected ==
    \A c \in ConnIds :
        HasBadLine(conns[c].stream) =>
            /\ conns[c].pc # "parse" => conns[c].req.err # ""
            /\ Finished(conns[c]) => ResponseStatus(conns[c].out) = 400

\* the header blocks without a Content-Length line
NoLengthBlocks ==
    {hs \in ParseHeaderBlocks : \A i \in 1..Len(hs) : ~HasPrefix(hs[i], CONTENT_LENGTH)}
\* a request without Content-Length, and the bytes sent after its blank line
SentNoLength(stream, l, b) ==
    \E hs \in NoLengthBlocks : Flatten(stream.segs) = Raw(l, hs, b)

\* C16: a request without a Content-Length header that parses has an empty
\* body, whatever bytes follow its blank line and however they are cut into
\* segments; and a well-formed request without Content-Length does parse.
C16_NoLengthNoBody ==
    \A c \in ConnIds :
        \A l \in ParseRequestLines, b \in ParseBodies :
            (conns[c].pc # "parse" /\ SentNoLength(conns[c].stream, l, b)) =>
                /\ conns[c].req.err = "" => conns[c].req.Body = <<>>
                /\ l \in GoodLines => conns[c].req.err = ""

\* POST /submit without Content-Length, followed by "hello" in the same
\* segment: the request parsed, its body is empty
C16_Witness ==
    /\ conns[1].stream = Whole(Raw(RequestLine(POST, PATH_SUBMIT), <<>>, HELLO))
    /\ conns[1].pc = "done"
    /\ conns[1].req.err = ""
    /\ conns[1].req.Body = <<>>
    /\ ResponseStatus(conns[1].out) = 200

\* the call the handler makes in this step, if it makes one
LastCall == callLog'[Len(callLog')]

\* C17 as stated: a SetHeader or WriteHeader call made after the headers
\* were flushed writes nothing to the connection and leaves the writer's
\* header mapping and status code as they were.
C17_FlushedNoOp ==
    [][(/\ conns[1].resp.wroteHeader
        /\ Len(callLog') = Len(callLog) + 1
        /\ LastCall.op \in {"SetHeader", "WriteHeader"}) =>
           /\ conns'[1].resp.conn = conns[1].resp.conn
           /\ conns'[1].resp.headers = conns[1].resp.headers
           /\ conns'[1].resp.statusCode = conns[1].resp.statusCode]_vars

\* the calls of the log that flush the headers if nothing has
Flushers == {i \in 1..Len(callLog) : callLog[i].op \in {"WriteHeader", "Write"}}

\* the code of the status line the calls of the log emit: that of the first
\* WriteHeader if it came before any Write, else 200
EmittedCode ==
    IF callLog[SetMin(Flushers)].op = "WriteHeader" THEN callLog[SetMin(Flushers)].code
    ELSE 200

\* C18: before any WriteHeader or Write, nothing is on the connection and
\* Status() is 200; from the first one on, Status() is the code of the first
\* WriteHeader if that came before any Write and 200 otherwise, whatever
\* WriteHeader calls followed, the one status line on the connection (there
\* once that call has returned) carries that code, and the status
\* loggingMiddleware reads when the handler has returned is that code.
C18_StatusIsEmitted ==
    LET rw == conns[1].resp
        out == conns[1].out
        events == conns[1].events
    IN  /\ Flushers = {} =>
               /\ ~rw.wroteHeader
               /\ out = <<>>
               /\ Status(rw) = 200
               /\ conns[1].pc = "close" =>
                      events[Len(events)] = Event("after", "loggingMiddleware", 200)
        /\ Flushers # {} =>
               /\ Status(rw) = EmittedCode
               /\ Count(out, "status") <= 1
               /\ out # <<>> => out[1] = WireStatus(EmittedCode, StatusText(EmittedCode))
               /\ (conns[1].pc # "calling" \/ Len(callLog) > SetMin(Flushers)) =>
                      /\ rw.wroteHeader
                      /\ Len(out) >= 3
               /\ conns[1].pc = "close" =>
                      events[Len(events)] = Event("after", "loggingMiddleware",
                                                  out[1].code)

\* WriteHeader(404), then WriteHeader(500), then the handler returned: the
\* client got 404 and the middleware read 404
C18_Witness ==
    /\ Len(callLog) = 2
    /\ callLog[1].op = "WriteHeader" /\ callLog[1].code = 404
    /\ callLog[2].op = "WriteHeader" /\ callLog[2].code = 500
    /\ conns[1].pc = "close"
    /\ conns[1].out[1].code = 404
    /\ conns[1].events = <<Event("before", "loggingMiddleware", 0),
                           Event("handler", "HandlerFunc", 0),
                           Event("after", "loggingMiddleware", 404)>>

\* the connections Accept returned after release() ran
LateConns == {c \in ConnIds : conns[c].afterCancel}
\* the connections whose handleConnection task has started and not ended
Running == {c \in ConnIds : conns[c].pc \notin {"accepted", "done", "unwound", "panicked"}}

\* C19: Accept returns at most one connection after release() ran, and only
\* from the call that was in progress then; once it has, the loop is never
\* in Accept again: it starts that connection's task and its next iteration
\* takes the shutdown branch.  The wait group counts the running tasks, that
\* connection's too, so ListenAndServe returns nil only when that task is
\* over and the connection closed (with its response written, unless the
\* task panicked).
C19_OneLateConn ==
    /\ Cardinality(LateConns) <= 1
    /\ wg = Cardinality(Running)
    /\ \A c \in LateConns :
           /\ c = Len(conns)
           /\ pcAtCancel = "accept"
           /\ loopPc \in {"spawn", "select", "wait", "returned", "exited"}
           /\ loopPc = "spawn" => conns[c].pc = "accepted"
           /\ conns[c].pc = "accepted" => loopPc \in {"spawn", "exited"}
           /\ retval # "err"
           /\ retval = "nil" =>
                  /\ conns[c].pc \in {"done", "unwound", "panicked"}
                  /\ conns[c].closed
                  /\ conns[c].pc = "done" => ResponseStatus(conns[c].out) # 0

\* the one connection accepted after release() ran is being served while
\* the loop waits in the shutdown branch
C19_Witness ==
    /\ LateConns = {Len(conns)}
    /\ Len(conns) = 1
    /\ loopPc = "wait"
    /\ wg = 1
    /\ conns[1].pc = "handling"

\* C20: while the loop is in Accept, the call failing and ListenAndServe
\* returning the error is one step that can be taken whatever the wait group
\* holds, and it leaves the wait group and the connections as they are: the
\* tasks go on.  ListenAndServe returns nil only on the shutdown branch,
\* with no task left.
C20_ErrorReturnsAtOnce ==
    [][/\ loopPc = "accept" => ENABLED LoopAcceptError
       /\ (loopPc = "accept" /\ acceptResult' = "error") =>
              /\ loopPc' = "returned" /\ retval' = "err"
              /\ wg' = wg /\ conns' = conns
       /\ (retval' = "nil" /\ retval # "nil") =>
              /\ loopPc = "wait" /\ ctxDone
              /\ wg = 0 /\ Running = {}]_vars

\* ListenAndServe has returned the Accept error while a connection is still
\* being served: not closed, its unit still in the wait group
C20_Witness ==
    /\ retval = "err"
    /\ loopPc = "returned"
    /\ wg = 1
    /\ \E c \in ConnIds : conns[c].pc = "handling" /\ ~conns[c].closed

=============================================================================
